---- MODULE Spec2Model ----
(***************************************************************************)
(* The recursive research agent: the generator `research(ctx, topic,       *)
(* depth)` run on a durable execution substrate.  Every invocation is a    *)
(* generator that is suspended at one of its yield points:                 *)
(*   "run"      yield* ctx.run(prompt, messages, ...)   (oracle consult)   *)
(*   "beginRpc" yield* ctx.beginRpc(research, subtopic, depth - 1)         *)
(*   "await"    yield* handle                                              *)
(* or it has not started ("invoked"), has ended ("returned", "failed") or  *)
(* was dropped by the substrate ("suspended").  One action is the code     *)
(* between two yields.                                                     *)
(***************************************************************************)
EXTENDS Integers, Sequences, FiniteSets, TLC

\* ---- bounds of the model ------------------------------------------------
\* deepest depth argument of the top-level invocation
MaxDepth == 1
\* most tool calls the oracle puts in one response
MaxCalls == 2
\* most decomposition requests the oracle issues in one whole run
MaxRequests == 2
\* most oracle consultations of one invocation
MaxConsults == 2

\* the top-level invocation (resonate invoke ... --func research)
Root == 1

\* arguments the top-level caller may pass
RootDepths == (0 - 1)..MaxDepth
RootTopics == {"", "X"}
\* what the oracle may put in a response: Subtopics[t] is the subtopic that
\* the tool call with identifier t asks for
Subtopics == <<"S1", "S2", "S3", "S4">>
Answers == {"A", "B"}
ToolIds == 1..MaxCalls
\* content of an assistant message that carries tool calls
Null == "null"
\* the absent tool_calls field of a plain assistant message
NoToolCalls == <<>>

VARIABLES
    inv,          \* inv[i]: the invocation with promise i (a record, see NewInvocation)
    budget,       \* decomposition requests the oracle may still issue
    log,          \* log[i]: the durable results of the steps of invocation i
    oraclePolicy  \* "free": any response; "always": tool calls on every consultation

vars == <<inv, log, budget, oraclePolicy>>

Ids == 1..Len(inv)

\* ---- messages -----------------------------------------------------------
SystemMessage ==
    [role |-> "system", content |-> "Break topics into subtopics...",
     tool_calls |-> NoToolCalls, tool_call_id |-> 0]

UserMessage(topic) ==
    [role |-> "user", content |-> "Research " \o topic,
     tool_calls |-> NoToolCalls, tool_call_id |-> 0]

\* the two entries of the initial history in the other order
InitMessagesUserFirst(topic) == <<UserMessage(topic), SystemMessage>>

\* const messages = [ {role: "system", ...}, {role: "user", ...} ]
InitMessages(topic) == <<SystemMessage, UserMessage(topic)>>

\* messages.push({ role: "tool", ..., content: result })
ToolMessage(tool_call, result) ==
    [role |-> "tool", content |-> result,
     tool_calls |-> NoToolCalls, tool_call_id |-> tool_call.id]

\* a response of the oracle without tool calls
PlainResponse(a) ==
    [role |-> "assistant", content |-> a,
     tool_calls |-> NoToolCalls, tool_call_id |-> 0]

\* a response of the oracle with the tool calls tcs (an array, wrapped so
\* that the absent field and the array stay apart)
ToolResponse(tcs) ==
    [role |-> "assistant", content |-> Null,
     tool_calls |-> <<tcs>>, tool_call_id |-> 0]

\* if (response.tool_calls): the field is present
HasToolCalls(response) == response.tool_calls # NoToolCalls

\* the array of response.tool_calls
ToolCalls(response) ==
    IF HasToolCalls(response) THEN response.tool_calls[1] ELSE <<>>

\* the tool calls the oracle may issue: each identifier asks for its own
\* subtopic
ToolCallPool == { [id |-> t, subtopic |-> Subtopics[t]] : t \in ToolIds }

\* arrays of 1..MaxCalls tool calls, in any order, with identifiers unique
\* in the response
ToolCallSeqs ==
    UNION { { s \in [1..n -> ToolCallPool] :
                \A a, b \in 1..n : a # b => s[a].id # s[b].id } :
            n \in 1..MaxCalls }

\* ---- invocations --------------------------------------------------------
\* the tool call of an invocation that no tool call asked for
NoCall == [id |-> 0, subtopic |-> ""]

\* the promise of an invocation research(topic, depth) created by `parent`
\* (0: the top-level caller) for the request tool_call; the generator has
\* not run yet
NewInvocation(topic, depth, parent, tool_call) ==
    [pc |-> "invoked", topic |-> topic, depth |-> depth, parent |-> parent,
     tool_call |-> tool_call,
     messages |-> <<>>, response |-> PlainResponse(Null),
     handles |-> <<>>, k |-> 0, consults |-> 0, result |-> Null,
     overtook |-> FALSE, droppedAt |-> ""]
\* (overtook: settled while a sibling created earlier was not; droppedAt:
\* the yield at which the generator was dropped since its last consultation)

\* a child invoked with the depth of its parent
ChildDepthSame(depth) == depth

\* ctx.beginRpc(research, subtopic, depth - 1)
ChildDepth(depth) == depth - 1

\* the entries of the durable log of an invocation: the result of a
\* ctx.run step, or the promise created by a ctx.beginRpc step
RunEntry(response) == [kind |-> "run", value |-> response, handle |-> 0]
RpcEntry(handle) == [kind |-> "rpc", value |-> PlainResponse(Null), handle |-> handle]

Init ==
    /\ \E t \in RootTopics, d \in RootDepths :
          inv = <<NewInvocation(t, d, 0, NoCall)>>
    /\ log = <<(<<>>)>>
    /\ budget = MaxRequests
    /\ oraclePolicy \in {"free", "always"}

\* messages declared outside the generator: an array that has entries is
\* not built again when the function is entered again
RestartSharedMessages(r) ==
    [r EXCEPT !.pc = "run",
              !.messages = IF @ = <<>> THEN InitMessages(r.topic) ELSE @,
              !.response = PlainResponse(Null), !.handles = <<>>, !.k = 0]

\* function* research(ctx, topic, depth) is entered: messages is a fresh
\* local array and the generator yields at the first ctx.run
Restart(r) ==
    [r EXCEPT !.pc = "run", !.messages = InitMessages(r.topic),
              !.response = PlainResponse(Null), !.handles = <<>>, !.k = 0]

\* the children of one parent run one after another: a child is invoked
\* when the siblings created before it have resolved
StartAfterSiblings(i) ==
    /\ inv[i].pc = "invoked"
    /\ \A c \in 1..(i - 1) :
          inv[c].parent = inv[i].parent => inv[c].pc \in {"returned", "failed"}
    /\ inv' = [inv EXCEPT ![i] = Restart(inv[i])]
    /\ UNCHANGED <<log, budget, oraclePolicy>>

\* the generator given the messages array of its caller: it pushes its
\* request onto the history of the parent
StartSharedHistory(i) ==
    /\ inv[i].pc = "invoked"
    /\ inv' = IF inv[i].parent = 0
              THEN [inv EXCEPT ![i] = Restart(inv[i])]
              ELSE [inv EXCEPT ![i] = Restart(inv[i]),
                               ![inv[i].parent].messages =
                                   Append(@, UserMessage(inv[i].topic))]
    /\ UNCHANGED <<log, budget, oraclePolicy>>

\* the substrate invokes the registered function for the promise i
Start(i) ==
    /\ inv[i].pc = "invoked"
    /\ inv' = [inv EXCEPT ![i] = Restart(inv[i])]
    /\ UNCHANGED <<log, budget, oraclePolicy>>

\* the final branch returns without the content of the response
RespondDropsContent(r, response) ==
    LET pushed == [r EXCEPT !.messages = Append(@, response),
                            !.response = response]
    IN IF HasToolCalls(response)
       THEN [pushed EXCEPT !.handles = <<>>, !.k = 1,
                           !.pc = IF ToolCalls(response) = <<>>
                                  THEN "run" ELSE "beginRpc"]
       ELSE [pushed EXCEPT !.pc = "returned"]

\* the code from the resumption of `yield* ctx.run(prompt, messages, ...)`
\* with `response` to the next yield or the return
Respond(r, response) ==
    LET pushed == [r EXCEPT !.messages = Append(@, response),
                            !.response = response]
    IN IF HasToolCalls(response)
       THEN [pushed EXCEPT !.handles = <<>>, !.k = 1,
                           !.pc = IF ToolCalls(response) = <<>>
                                  THEN "run" ELSE "beginRpc"]
       ELSE [pushed EXCEPT !.pc = "returned", !.result = response.content]

\* the exception caught and turned into an answer of the invocation
ThrowReturnsError(r) == [r EXCEPT !.pc = "returned", !.result = "error"]

\* an exception leaves the generator: the invocation rejects
Throw(r) == [r EXCEPT !.pc = "failed"]

\* the promise of invocation i is settled with the outcome of r: it is
\* noted whether a sibling created before i is still unsettled
Settle(i, r) ==
    IF r.pc \in {"returned", "failed"}
    THEN [r EXCEPT !.droppedAt = "", !.overtook =
            \E c \in 1..(i - 1) :
                /\ inv[c].parent = r.parent
                /\ inv[c].pc \notin {"returned", "failed"}]
    ELSE r

\* the responses the oracle may give to invocation r
OracleResponses(r) ==
    { ToolResponse(tcs) : tcs \in
        { s \in ToolCallSeqs :
            /\ Len(s) <= budget
            /\ oraclePolicy = "free" => r.consults + 1 < MaxConsults } }
    \cup
    { PlainResponse(a) : a \in { b \in Answers : oraclePolicy = "free" } }

\* const response = yield* ctx.run(prompt, messages, ...); messages.push(response);
\* if (response.tool_calls) { const handles = []; ... } else { return response.content; }
Consult(i) ==
    /\ inv[i].pc = "run"
    /\ inv[i].consults < MaxConsults
    /\ \E response \in OracleResponses(inv[i]) :
          /\ inv' = [inv EXCEPT ![i] =
                       Settle(i, Respond([inv[i] EXCEPT !.consults = @ + 1,
                                                        !.droppedAt = ""],
                                         response))]
          /\ log' = [log EXCEPT ![i] = Append(@, RunEntry(response))]
          /\ budget' = budget - Len(ToolCalls(response))
    /\ UNCHANGED oraclePolicy

\* the oracle call fails (quota, transport, malformed output): ctx.run
\* rejects
ConsultFails(i) ==
    /\ inv[i].pc = "run"
    /\ inv[i].consults < MaxConsults
    /\ oraclePolicy = "free"
    /\ inv' = [inv EXCEPT ![i] =
                 Settle(i, Throw([inv[i] EXCEPT !.consults = @ + 1]))]
    /\ UNCHANGED <<log, budget, oraclePolicy>>

\* the handle is awaited as soon as it is pushed, inside the for loop
AfterPushAwaitsAtOnce(r) == [r EXCEPT !.k = 1, !.pc = "await"]

\* the generator's position after handles.push([tool_call, handle]):
\* the next tool call of the for loop, or the first handle of the await loop
AfterPush(r) ==
    IF r.k < Len(ToolCalls(r.response))
    THEN [r EXCEPT !.k = @ + 1]
    ELSE [r EXCEPT !.k = 1, !.pc = "await"]

\* handles.push([tool_call, handle]) for the tool call the for loop is at
PushHandle(r, handle) ==
    AfterPush([r EXCEPT !.handles =
        Append(@, [tool_call |-> ToolCalls(r.response)[r.k], handle |-> handle])])

\* const handle = yield* ctx.beginRpc(research, subtopic, depth - 1);
\* handles.push([tool_call, handle]);
Spawn(i) ==
    /\ inv[i].pc = "beginRpc"
    /\ LET tool_call == ToolCalls(inv[i].response)[inv[i].k]
           handle == Len(inv) + 1
       IN /\ inv' = Append([inv EXCEPT ![i] = PushHandle(inv[i], handle)],
                           NewInvocation(tool_call.subtopic,
                                         ChildDepth(inv[i].depth), i, tool_call))
          /\ log' = Append([log EXCEPT ![i] = Append(@, RpcEntry(handle))], <<>>)
    /\ UNCHANGED <<budget, oraclePolicy>>

\* every iteration of the await loop awaits the first handle of the array
AwaitedFirst(r) == 1

\* the handles taken from the end of the array (handles.pop())
AwaitedLastFirst(r) == Len(r.handles) + 1 - r.k

\* the handle the await loop is suspended on:
\* for (const [tool_call, handle] of handles)
Awaited(r) == r.k

\* the await loop left after the first result
AfterResultStopsEarly(r) == [r EXCEPT !.k = 0, !.pc = "run", !.handles = <<>>]

\* the generator's position after messages.push({role: "tool", ...}):
\* the next handle, or back to the top of while (true), where the block
\* that declared handles is left
AfterResult(r) ==
    IF r.k < Len(r.handles)
    THEN [r EXCEPT !.k = @ + 1]
    ELSE [r EXCEPT !.k = 0, !.pc = "run", !.handles = <<>>]

\* the tool result tagged with the first tool call of the batch, whatever
\* handle was awaited
PushResultFirstCall(r, result) ==
    AfterResult([r EXCEPT !.messages =
        Append(@, ToolMessage(r.handles[1].tool_call, result))])

\* messages.push({ role: "tool", ..., content: result }) for the awaited handle
PushResult(r, result) ==
    AfterResult([r EXCEPT !.messages =
        Append(@, ToolMessage(r.handles[Awaited(r)].tool_call, result))])

\* the handle polled instead of awaited: a child that has not resolved is
\* passed over with an empty result
AwaitDoesNotBlock(i) ==
    /\ inv[i].pc = "await"
    /\ LET child == inv[inv[i].handles[Awaited(inv[i])].handle]
       IN IF child.pc = "failed"
          THEN inv' = [inv EXCEPT ![i] = Settle(i, Throw(inv[i]))]
          ELSE inv' = [inv EXCEPT ![i] = PushResult(inv[i], child.result)]
    /\ UNCHANGED <<log, budget, oraclePolicy>>

\* the await wrapped in a try/catch that feeds the error back as the result
AwaitSwallows(i) ==
    /\ inv[i].pc = "await"
    /\ LET child == inv[inv[i].handles[Awaited(inv[i])].handle]
       IN /\ child.pc \in {"returned", "failed"}
          /\ inv' = [inv EXCEPT ![i] = PushResult(inv[i], child.result)]
    /\ UNCHANGED <<log, budget, oraclePolicy>>

\* const result = yield* handle; messages.push({ role: "tool", ..., content: result });
\* a rejected handle throws out of the generator
Await(i) ==
    /\ inv[i].pc = "await"
    /\ LET child == inv[inv[i].handles[Awaited(inv[i])].handle]
       IN \/ /\ child.pc = "returned"
             /\ inv' = [inv EXCEPT ![i] = PushResult(inv[i], child.result)]
          \/ /\ child.pc = "failed"
             /\ inv' = [inv EXCEPT ![i] = Settle(i, Throw(inv[i]))]
    /\ UNCHANGED <<log, budget, oraclePolicy>>

\* ---- suspension and replay ---------------------------------------------
\* the generator of invocation i is dropped at one of its yields (the
\* function instance ends or crashes); what it held in memory is dead
Suspend(i) ==
    /\ inv[i].pc \in {"run", "beginRpc", "await"}
    /\ inv' = [inv EXCEPT ![i].pc = "suspended", ![i].droppedAt = inv[i].pc]
    /\ UNCHANGED <<log, budget, oraclePolicy>>

\* the await loop of a batch whose children all resolved, run to its end
RECURSIVE ConsumeAll(_)
ConsumeAll(r) ==
    IF r.pc # "await" THEN r
    ELSE ConsumeAll(PushResult(r, inv[r.handles[Awaited(r)].handle].result))

\* the generator re-executed over the first n entries of the log lg: a
\* ctx.run or ctx.beginRpc whose promise exists yields the recorded value
\* and executes nothing
RECURSIVE Replay(_, _, _)
Replay(r, lg, n) ==
    IF n = 0 THEN r
    ELSE LET before == Replay(r, lg, n - 1) IN
         IF lg[n].kind = "run"
         THEN Respond(ConsumeAll(before), lg[n].value)
         ELSE PushHandle(before, lg[n].handle)

\* the substrate invokes the function again for the suspended promise i:
\* the generator runs from its first line up to the first yield that has no
\* recorded value
Resume(i) ==
    /\ inv[i].pc = "suspended"
    /\ inv' = [inv EXCEPT ![i] = Replay(Restart(inv[i]), log[i], Len(log[i]))]
    /\ UNCHANGED <<log, budget, oraclePolicy>>

\* the promise ids a run can use
AllIds == 1..(MaxRequests + 1)

\* one step of invocation i
Step(i) ==
    /\ i \in Ids
    /\ \/ Start(i)
       \/ Consult(i)
       \/ ConsultFails(i)
       \/ Spawn(i)
       \/ Await(i)

Next == \E i \in AllIds : Step(i)

Spec == Init /\ [][Next]_vars

\* the substrate resumes every invocation that can take a step, and every
\* oracle call ends
FairSpec == Spec /\ \A i \in AllIds : WF_vars(Step(i))

\* one step of invocation i on a substrate that drops and re-executes
\* generators
ReplayStep(i) ==
    /\ i \in Ids
    /\ \/ Suspend(i)
       \/ Resume(i)

NextReplay == \E i \in AllIds : Step(i) \/ ReplayStep(i)

\* a run on valid arguments with an oracle free in its answers
ReplayInit ==
    /\ Init
    /\ oraclePolicy = "free"
    /\ inv[Root].topic # ""
    /\ inv[Root].depth >= 0

ReplaySpec == ReplayInit /\ [][NextReplay]_vars

\* ---- helpers of the properties -----------------------------------------
\* the invocations spawned by i
Children(i) == { c \in Ids : inv[c].parent = i }

Terminated(i) == inv[i].pc \in {"returned", "failed"}

\* the positions of the assistant entries of a history
AssistantAt(msgs) == { p \in 1..Len(msgs) : msgs[p].role = "assistant" }

\* the number of decomposition requests in the first n entries of a history
RECURSIVE Requested(_, _)
Requested(msgs, n) ==
    IF n = 0 THEN 0
    ELSE Requested(msgs, n - 1) + Len(ToolCalls(msgs[n]))

\* ---- C1 ------------------------------------------------------------------
\* C1: no invocation whose depth is 0 has spawned a child, whatever the
\* oracle answers.
C1_DepthZeroNeverSpawns ==
    \A c \in Ids : inv[c].parent # 0 => inv[inv[c].parent].depth # 0

\* ---- C2 ------------------------------------------------------------------
\* C2: with an oracle that returns decomposition requests on every
\* consultation, an invocation started with depth 0 on a valid topic
\* terminates by returning a plain answer: once the oracle has answered it,
\* it has returned, it neither spawns nor waits nor consults again.
C2_DepthZeroTerminates ==
    oraclePolicy = "always" =>
        \A i \in Ids :
            (inv[i].depth = 0 /\ inv[i].topic # "" /\ inv[i].consults >= 1)
                => inv[i].pc = "returned"

\* the same as a liveness property of the top-level invocation, for
\* FairSpec
C2_EventuallyReturns ==
    (oraclePolicy = "always" /\ inv[Root].depth = 0 /\ inv[Root].topic # "")
        => <>(inv[Root].pc = "returned")

\* ---- C3 ------------------------------------------------------------------
\* the handles of i pair the requests of its response, in order, with
\* children of i that were invoked with the request's subtopic and depth - 1
HandlesMatch(i) ==
    \A j \in 1..Len(inv[i].handles) :
        LET h == inv[i].handles[j] IN
        /\ h.tool_call = ToolCalls(inv[i].response)[j]
        /\ h.handle \in Children(i)
        /\ inv[h.handle].topic = h.tool_call.subtopic
        /\ inv[h.handle].depth = inv[i].depth - 1
        /\ inv[h.handle].tool_call = h.tool_call
        /\ \A l \in 1..Len(inv[i].handles) :
              l # j => inv[i].handles[l].handle # h.handle

\* C3: for every invocation with depth > 0 and every oracle response it
\* received, one child per decomposition request was spawned (none skipped,
\* none duplicated), with the request's subtopic and the parent's depth - 1.
C3_OneChildPerRequest ==
    \A i \in Ids : inv[i].depth > 0 =>
        /\ HandlesMatch(i)
        /\ inv[i].pc = "beginRpc" =>
              /\ Len(inv[i].handles) = inv[i].k - 1
              /\ Cardinality(Children(i)) =
                   Requested(inv[i].messages, Len(inv[i].messages))
                     - Len(ToolCalls(inv[i].response)) + Len(inv[i].handles)
        /\ inv[i].pc # "beginRpc" =>
              /\ inv[i].handles # <<>> =>
                    Len(inv[i].handles) = Len(ToolCalls(inv[i].response))
              /\ Cardinality(Children(i)) =
                   Requested(inv[i].messages, Len(inv[i].messages))
        /\ \A c \in Children(i) : inv[c].depth = inv[i].depth - 1

C3_Witness ==
    \E i \in Ids :
        /\ inv[i].depth > 0
        /\ inv[i].pc = "await"
        /\ Len(inv[i].handles) = 2
        /\ Cardinality(Children(i)) = 2

\* ---- C4 ------------------------------------------------------------------
\* invocation i consumes a handle in this step: it appends a tool result or
\* the rejected handle throws
ConsumesHandle(i) ==
    /\ inv[i].pc = "await"
    /\ inv'[i] # inv[i]

\* invocation i creates a handle in this step
CreatesHandle(i) == Len(inv'[i].handles) = Len(inv[i].handles) + 1

\* C4: fan-out completes before fan-in begins: no handle of a response is
\* awaited before a handle exists for every request of that response, and
\* the handles are created in the order of the requests.
C4_FanOutBeforeFanIn ==
    [][\A i \in Ids :
          /\ ConsumesHandle(i) =>
                Len(inv[i].handles) = Len(ToolCalls(inv[i].response))
          /\ CreatesHandle(i) =>
                LET n == Len(inv'[i].handles) IN
                /\ inv'[i].handles[n].tool_call = ToolCalls(inv[i].response)[n]
                /\ inv'[i].handles[n].handle = Len(inv) + 1
                /\ \A j \in 1..Len(inv[i].handles) :
                      inv'[i].handles[j] = inv[i].handles[j]
                /\ inv[i].messages[Len(inv[i].messages)] = inv[i].response
      ]_vars

C4_Witness ==
    \E i \in Ids :
        /\ inv[i].pc = "await"
        /\ inv[i].k = 2
        /\ Len(inv[i].handles) = 2
        /\ inv[i].messages[Len(inv[i].messages)].role = "tool"

\* ---- C5 ------------------------------------------------------------------
\* the tool results that follow the assistant entry at p are tagged, in
\* order, with the identifiers of its requests
ResultsInRequestOrder(msgs, p) ==
    \A j \in 1..Len(ToolCalls(msgs[p])) :
        p + j <= Len(msgs) =>
            /\ msgs[p + j].role = "tool"
            /\ msgs[p + j].tool_call_id = ToolCalls(msgs[p])[j].id

\* C5: the tool results appended to a history appear in the order of the
\* requests of the response, whatever the order in which the children
\* complete.
C5_ResultsInRequestOrder ==
    \A i \in Ids : \A p \in AssistantAt(inv[i].messages) :
        ResultsInRequestOrder(inv[i].messages, p)

\* both results of a batch are in the history although the second child
\* resolved before the first
C5_Witness ==
    \E i \in Ids :
        /\ inv[i].pc = "run"
        /\ Len(inv[i].messages) = 5
        /\ \E c1, c2 \in Children(i) :
              /\ inv[c1].tool_call = ToolCalls(inv[i].messages[3])[1]
              /\ inv[c2].tool_call = ToolCalls(inv[i].messages[3])[2]
              /\ inv[c2].overtook
              /\ inv[i].messages[4].content = inv[c1].result
              /\ inv[i].messages[5].content = inv[c2].result
              /\ inv[c1].result # inv[c2].result

\* ---- C6 ------------------------------------------------------------------
HasFailedChild(i) == \E c \in Children(i) : inv[c].pc = "failed"

\* C6: fail-fast: a parent one of whose children failed never returns a
\* result, and after the failure of the child it consults the oracle no
\* more.
C6_FailFast ==
    /\ [](\A i \in Ids : HasFailedChild(i) => inv[i].pc # "returned")
    /\ [][\A i \in Ids :
             HasFailedChild(i) => inv'[i].consults = inv[i].consults]_vars

\* the parent failed on the failure of its second child, after it had
\* taken the result of the first
C6_Witness ==
    \E i \in Ids :
        /\ inv[i].pc = "failed"
        /\ HasFailedChild(i)
        /\ inv[i].k = 2
        /\ inv[i].messages[Len(inv[i].messages)].role = "tool"

\* ---- C7 ------------------------------------------------------------------
\* the most recent oracle response in a history carries no request
LastResponsePlain(msgs) ==
    /\ AssistantAt(msgs) # {}
    /\ LET p == CHOOSE q \in AssistantAt(msgs) :
                  \A o \in AssistantAt(msgs) : o <= q
       IN ~HasToolCalls(msgs[p])

C7_WitnessFanIn ==
    \E i \in Ids : inv[i].pc = "returned" /\ inv[i].consults = 2

\* ---- C8 ------------------------------------------------------------------
\* C8: at depth 1, when the first response carries k >= 1 requests and the
\* response after the fan-in is the plain answer S: k children were spawned,
\* each with depth 0, the parent consulted twice, the second consultation
\* saw the k child answers, and the result is S.
C8_FanOutFanInDepthOne ==
    ( /\ inv[Root].depth = 1
      /\ inv[Root].pc = "returned"
      /\ Len(inv[Root].messages) >= 3
      /\ HasToolCalls(inv[Root].messages[3])
      /\ Cardinality({ p \in AssistantAt(inv[Root].messages) :
                         HasToolCalls(inv[Root].messages[p]) }) = 1 )
    =>
    LET msgs == inv[Root].messages
        tcs == ToolCalls(msgs[3])
        k == Len(tcs)
    IN /\ k >= 1
       /\ Cardinality(Children(Root)) = k
       /\ \A c \in Children(Root) : inv[c].depth = 0 /\ inv[c].pc = "returned"
       /\ inv[Root].consults = 2
       /\ Len(msgs) = 3 + k + 1
       /\ \A j \in 1..k :
             /\ msgs[3 + j].role = "tool"
             /\ msgs[3 + j].tool_call_id = tcs[j].id
             /\ \E c \in Children(Root) :
                   /\ inv[c].tool_call = tcs[j]
                   /\ inv[c].topic = tcs[j].subtopic
                   /\ msgs[3 + j].content = inv[c].result
       /\ msgs[Len(msgs)].role = "assistant"
       /\ inv[Root].result = msgs[Len(msgs)].content

C8_Witness ==
    /\ inv[Root].depth = 1
    /\ inv[Root].pc = "returned"
    /\ inv[Root].consults = 2
    /\ Cardinality(Children(Root)) = 2
    /\ inv[Root].messages[4].content = "A"
    /\ inv[Root].messages[5].content = "B"
    /\ inv[Root].result = "B"

\* ---- C9 ------------------------------------------------------------------
InvalidInput(i) == inv[i].depth < 0 \/ inv[i].topic = ""

\* C9: an invocation entered with a negative depth or an empty topic is
\* rejected before any oracle consultation and before any child is spawned.
C9_InvalidInputRejected ==
    \A i \in Ids :
        (InvalidInput(i) /\ inv[i].pc # "invoked") =>
            /\ inv[i].pc = "failed"
            /\ inv[i].consults = 0
            /\ Children(i) = {}

\* ---- C10 -----------------------------------------------------------------
\* the history of the uninterrupted run of invocation i over the first n
\* recorded outputs: each recorded response, each child's answer for its
\* request
RECURSIVE Uninterrupted(_, _)
Uninterrupted(i, n) ==
    IF n = 0 THEN InitMessages(inv[i].topic)
    ELSE LET e == log[i][n] IN
         Append(Uninterrupted(i, n - 1),
                IF e.kind = "run" THEN e.value
                ELSE ToolMessage(inv[e.handle].tool_call, inv[e.handle].result))

\* the requests of the current response that have no handle yet
Unspawned(i) ==
    IF inv[i].pc = "beginRpc"
    THEN Len(ToolCalls(inv[i].response)) - Len(inv[i].handles)
    ELSE 0

\* C10: an invocation that is dropped at any of its yields and re-executed
\* has the history of the uninterrupted run over the same oracle and child
\* outputs and returns the same result; every recorded consultation and
\* every child is executed once.
C10_ReplayEquivalence ==
    \A i \in Ids : inv[i].pc \notin {"invoked", "suspended"} =>
        LET msgs == inv[i].messages
            full == Uninterrupted(i, Len(log[i]))
        IN /\ Len(msgs) <= Len(full)
           /\ msgs = SubSeq(full, 1, Len(msgs))
           /\ inv[i].pc \in {"run", "returned"} => msgs = full
           /\ inv[i].pc = "returned" => inv[i].result = full[Len(full)].content
           /\ inv[i].pc # "failed" =>
                 inv[i].consults = Cardinality(AssistantAt(msgs))
           /\ Cardinality(Children(i)) =
                 Requested(msgs, Len(msgs)) - Unspawned(i)

\* an invocation whose generator was dropped in the await loop of a batch
\* of two and re-executed has finished the fan-in: both results are in its
\* history and it is back at the consult step
C10_Witness ==
    \E i \in Ids :
        /\ inv[i].pc = "run"
        /\ inv[i].droppedAt = "await"
        /\ Len(inv[i].messages) = 5
        /\ inv[i].messages[4].role = "tool"
        /\ inv[i].messages[5].role = "tool"
        /\ Cardinality(Children(i)) = 2

\* an invocation whose generator was dropped right after a consult step,
\* in the fan-out, and re-executed awaits the two children of the response
C10_WitnessPostConsult ==
    \E i \in Ids :
        /\ inv[i].pc = "await"
        /\ inv[i].droppedAt = "beginRpc"
        /\ Len(inv[i].handles) = 2
        /\ Cardinality(Children(i)) = 2

\* ---- C11 -----------------------------------------------------------------
\* the invocations on the chain from the parent of i to the top-level one
RECURSIVE Ancestors(_)
Ancestors(i) ==
    IF inv[i].parent = 0 THEN {}
    ELSE {inv[i].parent} \cup Ancestors(inv[i].parent)

\* an oracle consultation of invocation i failed: it consulted more often
\* than it received a response
ConsultFailed(i) ==
    IF i \in Ids
    THEN inv[i].consults > Cardinality(AssistantAt(inv[i].messages))
    ELSE FALSE

\* every invocation from i up to the top-level one is rejected
ChainFailed(i) ==
    IF i \in Ids
    THEN \A a \in Ancestors(i) \cup {i, Root} : inv[a].pc = "failed"
    ELSE FALSE

AwaitedChild(i) == inv[i].handles[Awaited(inv[i])].handle

\* a parent one of whose children failed is not kept waiting for a sibling
\* that has not resolved
C13_DoesNotWait ==
    \A i \in Ids :
        (inv[i].pc = "await" /\ HasFailedChild(i)) => Terminated(AwaitedChild(i))

\* after the failure of a child no sibling's result enters the history of
\* the parent
C13_NoResultAfterFailure ==
    \A i \in Ids : HasFailedChild(i) => inv'[i].messages = inv[i].messages

\* a parent that failed on the first handle of its batch did not pass over
\* a failure of the second child that came while the first was unresolved
C13_ReportsFirstFailure ==
    \A i \in Ids :
        (inv[i].pc = "failed" /\ Len(inv[i].handles) >= 2 /\ inv[i].k = 1) =>
            LET second == inv[inv[i].handles[2].handle]
            IN ~(second.pc = "failed" /\ second.overtook)

\* C13: the parent fails immediately once any child of a batch fails: it
\* does not wait for an earlier-created sibling that is unresolved, the
\* failure it reports is that of the child that failed first, and no result
\* of a sibling is appended to its history after the failure.
C13_FailsImmediately ==
    /\ []C13_DoesNotWait
    /\ [][C13_NoResultAfterFailure]_vars
    /\ []C13_ReportsFirstFailure

\* ---- C14 -----------------------------------------------------------------
\* the child of i that was spawned for the m-th decomposition request that
\* i received (children are created in the order of the requests)
NthChild(i, m) ==
    CHOOSE c \in Children(i) :
        Cardinality({ d \in Children(i) : d <= c }) = m

\* the fan-in of the requests of the assistant entry at p is complete in
\* the history msgs
FanInComplete(msgs, p) == p + Len(ToolCalls(msgs[p])) <= Len(msgs)

\* C14: request/result pairing: when an invocation consults the oracle
\* after a fan-in, its history holds for every request of the preceding
\* assistant entry exactly one tool result among the entries that follow
\* it, tagged with the identifier of the request and containing the string
\* returned by the child spawned for that request.
C14_RequestResultPairing ==
    \A i \in Ids :
        LET msgs == inv[i].messages IN
        \A p \in AssistantAt(msgs) :
            LET tcs == ToolCalls(msgs[p])
                batch == (p + 1)..(p + Len(tcs))
            IN /\ inv[i].pc \in {"run", "returned"} => FanInComplete(msgs, p)
               /\ FanInComplete(msgs, p) =>
                     \A j \in 1..Len(tcs) :
                        LET child == inv[NthChild(i, Requested(msgs, p - 1) + j)]
                            tagged == { q \in batch :
                                          /\ msgs[q].role = "tool"
                                          /\ msgs[q].tool_call_id = tcs[j].id }
                        IN /\ Cardinality(tagged) = 1
                           /\ child.tool_call = tcs[j]
                           /\ child.pc = "returned"
                           /\ \A q \in tagged : msgs[q].content = child.result

\* an invocation is about to consult the oracle after the fan-in of two
\* requests whose children returned different strings
C14_Witness ==
    \E i \in Ids :
        /\ inv[i].pc = "run"
        /\ Len(inv[i].messages) = 5
        /\ Len(ToolCalls(inv[i].messages[3])) = 2
        /\ inv[i].messages[5].role = "tool"
        /\ inv[NthChild(i, 1)].result # inv[NthChild(i, 2)].result

\* ---- C15 -----------------------------------------------------------------
\* the history after the step extends the history before it
Extends(after, before) ==
    /\ Len(after) >= Len(before)
    /\ SubSeq(after, 1, Len(before)) = before

\* C15: the history is append-only and exclusively owned: every step leaves
\* the entries that an invocation's history holds in place (entries are
\* only appended at the end), and a step of one invocation changes the
\* history of no other invocation.
C15_HistoryAppendOnlyOwned ==
    [][/\ \A i \in Ids : Extends(inv'[i].messages, inv[i].messages)
       /\ \A j \in AllIds : Step(j) =>
             \A i \in Ids \ {j} : inv'[i].messages = inv[i].messages
      ]_vars

\* a parent holds the results of two children that ran and returned while
\* it was suspended, each with a history of its own
C15_Witness ==
    \E i \in Ids :
        /\ Len(inv[i].messages) = 5
        /\ inv[i].messages[5].role = "tool"
        /\ Cardinality(Children(i)) = 2
        /\ \A c \in Children(i) :
              /\ inv[c].pc = "returned"
              /\ Len(inv[c].messages) = 3
              /\ inv[c].messages[2] = UserMessage(inv[c].topic)
              /\ inv[c].messages[2] # inv[i].messages[2]

\* ---- C16 -----------------------------------------------------------------
\* the number of child results that invocation i has taken into its history
ToolCount(i) ==
    Cardinality({ q \in 1..Len(inv[i].messages) : inv[i].messages[q].role = "tool" })

\* the handles that invocation i holds and has not awaited to the end: all
\* of them during the fan-out, those from the loop position on during the
\* fan-in, those behind the rejected one after a failure
Unconsumed(i) ==
    IF inv[i].handles = <<>> THEN 0
    ELSE IF inv[i].pc = "beginRpc" THEN Len(inv[i].handles)
    ELSE IF inv[i].pc = "await" THEN Len(inv[i].handles) - inv[i].k + 1
    ELSE Len(inv[i].handles) - inv[i].k

\* every handle is held by the invocation that created it, and only once
C16_OwnedByCreator ==
    \A i \in Ids : \A j \in 1..Len(inv[i].handles) :
        LET h == inv[i].handles[j].handle IN
        /\ h \in Children(i)
        /\ \A l \in 1..Len(inv[i].handles) : inv[i].handles[l].handle = h => l = j
        /\ \A o \in Ids \ {i} : \A l \in 1..Len(inv[o].handles) :
              inv[o].handles[l].handle # h

\* the results taken are those of the children whose handles were awaited
\* to the end, one each; an invocation that is at the consult step or has
\* returned has awaited every handle it created
C16_NoneLeft ==
    \A i \in Ids :
        /\ ToolCount(i) + Unconsumed(i)
              + (IF inv[i].pc = "failed" /\ inv[i].handles # <<>> THEN 1 ELSE 0)
             = Cardinality(Children(i))
        /\ inv[i].pc \in {"run", "returned"} =>
              /\ ToolCount(i) = Cardinality(Children(i))
              /\ \A c \in Children(i) : inv[c].pc = "returned"

\* a step of the await loop consumes the handle at the loop position, whose
\* child has resolved, and moves past it
C16_ConsumedOnce ==
    \A i \in Ids : ConsumesHandle(i) =>
        LET h == inv[i].handles[inv[i].k]
            child == inv[h.handle]
        IN /\ Terminated(h.handle)
           /\ child.pc = "failed" => inv'[i].pc = "failed"
           /\ child.pc = "returned" =>
                 /\ inv'[i].messages =
                       Append(inv[i].messages, ToolMessage(h.tool_call, child.result))
                 /\ IF inv[i].k < Len(inv[i].handles)
                    THEN /\ inv'[i].pc = "await"
                         /\ inv'[i].k = inv[i].k + 1
                         /\ inv'[i].handles = inv[i].handles
                    ELSE inv'[i].pc = "run"

\* C16: every spawn handle is awaited only by the invocation that created
\* it and its result is consumed exactly once: no handle is awaited twice,
\* none by another invocation, and no created handle is left unawaited when
\* the parent consults the oracle again or returns.
C16_HandlesConsumedOnce ==
    /\ [](C16_OwnedByCreator /\ C16_NoneLeft)
    /\ [][C16_ConsumedOnce]_vars

\* a parent has awaited the two handles of a batch, the second child having
\* resolved first, and is back at the consult step
C16_Witness ==
    \E i \in Ids :
        /\ inv[i].pc = "run"
        /\ ToolCount(i) = 2
        /\ Cardinality(Children(i)) = 2
        /\ \E c \in Children(i) : inv[c].overtook

\* ---- C17 -----------------------------------------------------------------
\* invocation i is suspended on a handle whose child has not resolved
Blocked(i) ==
    /\ inv[i].pc = "await"
    /\ ~Terminated(AwaitedChild(i))

\* C17: sibling independence: with an oracle that answers, every invocation
\* that has not ended can take a step unless it is itself suspended on an
\* unresolved handle of its own; so while a parent is blocked on one handle
\* of a batch, every other child of the batch can step, whatever the state
\* of its siblings.
C17_SiblingIndependence ==
    oraclePolicy = "free" =>
        \A c \in Ids :
            (~Terminated(c) /\ ~Blocked(c)) => ENABLED Step(c)

\* the parent is blocked on the first handle of a batch, whose child has
\* not even started, and the second child of the batch has run and returned
C17_Witness ==
    \E i \in Ids :
        /\ Blocked(i)
        /\ inv[i].k = 1
        /\ Len(inv[i].handles) = 2
        /\ inv[inv[i].handles[1].handle].pc = "invoked"
        /\ inv[inv[i].handles[2].handle].pc = "returned"

\* ---- C18 -----------------------------------------------------------------
\* the assistant entry that most closely precedes position q of a history
\* (0 if there is none)
AssistantBefore(msgs, q) ==
    LET before == { p \in AssistantAt(msgs) : p < q }
    IN IF before = {} THEN 0
       ELSE CHOOSE p \in before : \A o \in before : o <= p

\* C18: the shape of a history: it begins with one system entry followed by
\* one user entry for the topic of the invocation, no other entry is a
\* system or user entry, and every tool result is preceded by an assistant
\* entry that carries a decomposition request with the identifier of the
\* result.
C18_HistoryShape ==
    \A i \in Ids : inv[i].pc # "invoked" =>
        LET msgs == inv[i].messages IN
        /\ Len(msgs) >= 2
        /\ msgs[1] = SystemMessage
        /\ msgs[1].role = "system"
        /\ msgs[2].role = "user"
        /\ msgs[2].content = "Research " \o inv[i].topic
        /\ \A q \in 3..Len(msgs) : msgs[q].role \in {"assistant", "tool"}
        /\ \A q \in 3..Len(msgs) : msgs[q].role = "tool" =>
              LET p == AssistantBefore(msgs, q) IN
              /\ p # 0
              /\ \E j \in 1..Len(ToolCalls(msgs[p])) :
                    ToolCalls(msgs[p])[j].id = msgs[q].tool_call_id

\* a history with every kind of entry: system, user, an assistant entry
\* with two requests, their two tool results and a plain assistant entry
C18_Witness ==
    \E i \in Ids :
        /\ inv[i].pc = "returned"
        /\ Len(inv[i].messages) = 6
        /\ Len(ToolCalls(inv[i].messages[3])) = 2
        /\ inv[i].messages[4].role = "tool"
        /\ inv[i].messages[5].role = "tool"
        /\ inv[i].messages[6].role = "assistant"

\* ---- C19 -----------------------------------------------------------------
\* the nesting level of invocation i: 0 for the top-level invocation
Level(i) == Cardinality(Ancestors(i))

\* every invocation at nesting level n has the depth of the top-level
\* invocation minus n
C19_DepthIsRootMinusLevel ==
    \A i \in Ids : inv[i].depth = inv[Root].depth - Level(i)

\* C19: for a top-level invocation with depth D >= 0 (on a topic that is
\* not empty), every invocation at
\* nesting level n has depth D - n, no invocation with a negative depth is
\* created and the nesting level never exceeds D, whatever the oracle
\* answers.
C19_DepthBoundsTree ==
    (inv[Root].depth >= 0 /\ inv[Root].topic # "") =>
        /\ C19_DepthIsRootMinusLevel
        /\ \A i \in Ids : inv[i].depth >= 0 /\ Level(i) <= inv[Root].depth

\* ---- C20 -----------------------------------------------------------------
\* some step of the run has failed
SomeFailure == \E i \in Ids : inv[i].pc = "failed"

\* a run on valid arguments with an oracle that answers every consultation
\* and gives every invocation a response without requests after finitely
\* many consultations
C20_Hypothesis ==
    /\ oraclePolicy = "free"
    /\ inv[Root].depth >= 0
    /\ inv[Root].topic # ""

\* an invocation that has returned has no child that has not resolved
ResolvedBeforeReturn ==
    \A i \in Ids : inv[i].pc = "returned" =>
        \A c \in Children(i) : inv[c].pc = "returned"

\* C20: liveness of the whole tree: for depth D >= 0, when no step fails,
\* every consultation is answered and every invocation gets a response
\* without requests after finitely many consultations, then under weak
\* fairness the top-level invocation eventually returns (a run that does not
\* get there has a failure), and every child has resolved before its parent
\* returns.
C20_TreeLiveness ==
    C20_Hypothesis =>
        /\ <>(inv[Root].pc = "returned" \/ SomeFailure)
        /\ [](~SomeFailure => ResolvedBeforeReturn)

\* the top-level invocation has returned on a run without failure in which
\* it had a child and a grandchild
C20_Witness ==
    /\ C20_Hypothesis
    /\ inv[Root].pc = "returned"
    /\ ~SomeFailure
    /\ Children(Root) # {}
    /\ \E g \in Ids : Level(g) = 2 /\ inv[g].pc = "returned"
====
